---- MODULE Spec2Model ----
(***************************************************************************)
(* Model of the binary decoders of blender_addons/mdlx_importer.py:        *)
(* BarFile (the BAR container reader), BarFile.entry (lookup by type),     *)
(* MdlxModel / MdlxModel.Bone (model header and bone table decoder) and    *)
(* MdlxFile (the load pipeline).  Buffers are sequences of bytes 0..255,   *)
(* indexed from 1 in TLA+ and from 0 in the source; every operator below   *)
(* takes 0-based positions as the source does.                             *)
(***************************************************************************)
EXTENDS Integers, Sequences, FiniteSets, TLC

VARIABLES data, pc, bar, etype, model_data, model, mdlx

\* the exporter script: the files under the root, ModBuilder.assets, the
\* outcome of render, and the position in main
VARIABLES listing, assets, document, step

exporter == <<listing, assets, document, step>>

vars == <<data, pc, bar, etype, model_data, model, mdlx, exporter>>

(***************************************************************************)
(* Bounds of the input space.                                              *)
(***************************************************************************)
MaxEntries == 2
MaxBones == 2
PayloadLen == 3

(***************************************************************************)
(* Program constants.                                                      *)
(***************************************************************************)
HeaderStart == 144
BoneRecordSize == 64
ModelKind == 4

(***************************************************************************)
(* Python primitives: slicing, struct.unpack_from, struct.unpack.          *)
(***************************************************************************)
Min(a, b) == IF a <= b THEN a ELSE b

\* buf[a:b] for 0 <= a, 0 <= b: clipped to the buffer, never an error
Slice(buf, a, b) ==
    LET lo == Min(a, Len(buf))
        hi == Min(b, Len(buf))
    IN  IF hi <= lo THEN << >> ELSE SubSeq(buf, lo + 1, hi)

RECURSIVE LittleEndian(_)
LittleEndian(bs) ==
    IF bs = << >> THEN 0 ELSE Head(bs) + 256 * LittleEndian(Tail(bs))

\* struct.unpack_from(fmt, buf, pos) raises struct.error unless the buffer
\* holds calcsize(fmt) bytes at pos
CanUnpack(buf, pos, n) == pos + n <= Len(buf)

\* '<H' and '<I'.  The integers of the model are 32 bits wide and signed while
\* Python's are unbounded: the input files keep bit 31 of every '<I' field
\* clear, and TLC reports a value beyond that as an error, never wrapping it.
unpack_u16(buf, pos) == LittleEndian(Slice(buf, pos, pos + 2))

unpack_u32(buf, pos) == LittleEndian(Slice(buf, pos, pos + 4))

StructError == "struct.error"
UnicodeDecodeError == "UnicodeDecodeError"
ValueError == "ValueError"

(***************************************************************************)
(* read_u16 / read_s32 / read_f32 on a BytesIO stream f at cursor pos:     *)
(* f.read(n) returns the bytes that are left (at most n), and              *)
(* struct.unpack raises struct.error unless it got exactly n of them.      *)
(***************************************************************************)
StreamRead(f, pos, n) == Slice(f, pos, pos + n)

CanRead(f, pos, n) == Len(StreamRead(f, pos, n)) = n

read_u16(f, pos) == LittleEndian(StreamRead(f, pos, 2))

\* '<i': two's complement, the top byte carrying the sign
read_s32_big_endian(f, pos) ==
    LET bs == StreamRead(f, pos, 4)
    IN  bs[4] + 256 * bs[3] + 65536 * bs[2]
            + 16777216 * (IF bs[1] >= 128 THEN bs[1] - 256 ELSE bs[1])

read_s32(f, pos) ==
    LET bs == StreamRead(f, pos, 4)
    IN  bs[1] + 256 * bs[2] + 65536 * bs[3]
            + 16777216 * (IF bs[4] >= 128 THEN bs[4] - 256 ELSE bs[4])

\* '<f': an IEEE-754 binary32 value, kept as its sign, biased exponent and
\* fraction (bit 31, bits 30..23, bits 22..0 of the little-endian word)
read_f32(f, pos) ==
    LET bs == StreamRead(f, pos, 4)
    IN  [sign |-> bs[4] \div 128,
         exp  |-> (bs[4] % 128) * 2 + bs[3] \div 128,
         frac |-> (bs[3] % 128) * 65536 + bs[2] * 256 + bs[1]]

(***************************************************************************)
(* BarEntry and BarFile.__init__                                           *)
(***************************************************************************)
BarEntry(etype_, duplicate, name, offset, size) ==
    [type |-> etype_, duplicate |-> duplicate, name |-> name,
     offset |-> offset, size |-> size]

\* bytes.decode('ascii') raises UnicodeDecodeError on any byte above 127
IsAscii(bs) == \A i \in 1..Len(bs) : bs[i] < 128

\* str.rstrip('\0'), the name kept as its sequence of code points
RECURSIVE RStripNul(_)
RStripNul(s) ==
    IF s # << >> /\ s[Len(s)] = 0 THEN RStripNul(SubSeq(s, 1, Len(s) - 1)) ELSE s

BarOk(entries, d) == [ok |-> TRUE, err |-> "", entries |-> entries, data |-> d]

BarError(e) == [ok |-> FALSE, err |-> e, entries |-> << >>, data |-> << >>]

\* the body of `for _ in range(count)`, from iteration i with cursor pos
RECURSIVE BarFileLoop(_, _, _, _, _)
BarFileLoop(d, count, i, pos, entries) ==
    IF i >= count THEN BarOk(entries, d)
    ELSE IF ~CanUnpack(d, pos, 4) THEN BarError(StructError)
    ELSE IF ~IsAscii(Slice(d, pos + 4, pos + 8)) THEN BarError(UnicodeDecodeError)
    ELSE IF ~CanUnpack(d, pos + 8, 8) THEN BarError(StructError)
    ELSE BarFileLoop(d, count, i + 1, pos + 16,
                     Append(entries,
                            BarEntry(unpack_u16(d, pos),
                                     unpack_u16(d, pos + 2),
                                     RStripNul(Slice(d, pos + 4, pos + 8)),
                                     unpack_u32(d, pos + 8),
                                     unpack_u32(d, pos + 12))))

\* a reader that keeps only the first entry of each type
RECURSIVE FirstOfEachType(_)
FirstOfEachType(es) ==
    IF es = << >> THEN << >>
    ELSE LET rest == FirstOfEachType(SubSeq(es, 1, Len(es) - 1))
             last == es[Len(es)]
         IN  IF \E i \in 1..Len(rest) : rest[i].type = last.type
             THEN rest ELSE Append(rest, last)

BarFileDeduplicating(d) ==
    IF ~CanUnpack(d, 4, 4) THEN BarError(StructError)
    ELSE LET b == BarFileLoop(d, unpack_u32(d, 4), 0, 16, << >>)
         IN  [b EXCEPT !.entries = FirstOfEachType(b.entries)]

BarFile(d) ==
    IF ~CanUnpack(d, 4, 4) THEN BarError(StructError)
    ELSE BarFileLoop(d, unpack_u32(d, 4), 0, 16, << >>)

(***************************************************************************)
(* BarFile.entry: None, or the slice of the first entry of the type        *)
(***************************************************************************)
None == [found |-> FALSE, bytes |-> << >>]

Some(bs) == [found |-> TRUE, bytes |-> bs]

RECURSIVE EntryFrom(_, _, _)
EntryFrom(b, t, i) ==
    IF i > Len(b.entries) THEN None
    ELSE IF b.entries[i].type = t
         THEN Some(Slice(b.data, b.entries[i].offset,
                         b.entries[i].offset + b.entries[i].size))
         ELSE EntryFrom(b, t, i + 1)

RECURSIVE EntryLastFrom(_, _, _)
EntryLastFrom(b, t, i) ==
    IF i < 1 THEN None
    ELSE IF b.entries[i].type = t
         THEN Some(Slice(b.data, b.entries[i].offset,
                         b.entries[i].offset + b.entries[i].size))
         ELSE EntryLastFrom(b, t, i - 1)

entry_last_match(b, t) == EntryLastFrom(b, t, Len(b.entries))

entry(b, t) == EntryFrom(b, t, 1)

(***************************************************************************)
(* MdlxModel.Bone.__init__ on the stream io.BytesIO(bone_bytes)            *)
(***************************************************************************)
BoneError(e) ==
    [ok |-> FALSE, err |-> e, index |-> 0, parent |-> 0,
     scale |-> << >>, rot |-> << >>, trans |-> << >>]

Bone(f) ==
    IF ~CanRead(f, 0, 2) THEN BoneError(StructError)
    ELSE IF ~CanRead(f, 4, 4) THEN BoneError(StructError)
    ELSE IF \E k \in 0..11 : ~CanRead(f, 16 + 4 * k, 4) THEN BoneError(StructError)
    ELSE [ok |-> TRUE, err |-> "",
          index  |-> read_u16(f, 0),
          parent |-> read_s32(f, 4),
          scale  |-> [k \in 1..4 |-> read_f32(f, 16 + 4 * (k - 1))],
          rot    |-> [k \in 1..4 |-> read_f32(f, 32 + 4 * (k - 1))],
          trans  |-> [k \in 1..4 |-> read_f32(f, 48 + 4 * (k - 1))]]

(***************************************************************************)
(* MdlxModel.__init__: the header at 0x90, then the bone table             *)
(***************************************************************************)
HeaderError(e) ==
    [ok |-> FALSE, err |-> e, version |-> 0, next_hdr |-> 0, bone_count |-> 0,
     bone_offset |-> 0, unknown_offset |-> 0, subpart_count |-> 0]

\* the header reads, `reserved` being the bytes skipped after the version
MdlxHeaderLayout(d, reserved) ==
    LET p1 == HeaderStart + 4 + reserved
        p2 == p1 + 4
        p3 == p2 + 2 + 2
        p4 == p3 + 4
        p5 == p4 + 4
    IN  IF ~CanUnpack(d, HeaderStart, 4) THEN HeaderError(StructError)
        ELSE IF ~CanUnpack(d, p1, 4) THEN HeaderError(StructError)
        ELSE IF ~CanUnpack(d, p2, 2) THEN HeaderError(StructError)
        ELSE IF ~CanUnpack(d, p3, 4) THEN HeaderError(StructError)
        ELSE IF ~CanUnpack(d, p4, 4) THEN HeaderError(StructError)
        ELSE IF ~CanUnpack(d, p5, 2) THEN HeaderError(StructError)
        ELSE [ok |-> TRUE, err |-> "",
              version        |-> unpack_u32(d, HeaderStart),
              next_hdr       |-> unpack_u32(d, p1),
              bone_count     |-> unpack_u16(d, p2),
              bone_offset    |-> unpack_u32(d, p3),
              unknown_offset |-> unpack_u32(d, p4),
              subpart_count  |-> unpack_u16(d, p5)]

MdlxHeaderShortSkip(d) == MdlxHeaderLayout(d, 4)

MdlxHeader(d) == MdlxHeaderLayout(d, 8)

ModelOk(bones) == [ok |-> TRUE, err |-> "", bones |-> bones]

ModelError(e) == [ok |-> FALSE, err |-> e, bones |-> << >>]

\* the body of `for i in range(bone_count)`, from iteration i with cursor p
RECURSIVE BoneLoopStride(_, _, _, _, _, _)
BoneLoopStride(d, bone_count, i, p, bones, stride) ==
    IF i >= bone_count THEN ModelOk(bones)
    ELSE LET b == Bone(Slice(d, p, p + BoneRecordSize))
         IN  IF ~b.ok THEN ModelError(b.err)
             ELSE BoneLoopStride(d, bone_count, i + 1, p + stride,
                                 Append(bones, b), stride)

\* a cursor advanced by 0x20 instead of 0x40
BoneLoopHalfStride(d, bone_count, i, p, bones) ==
    BoneLoopStride(d, bone_count, i, p, bones, 32)

BoneLoop(d, bone_count, i, p, bones) ==
    BoneLoopStride(d, bone_count, i, p, bones, BoneRecordSize)

MdlxModel(d) ==
    LET h == MdlxHeader(d)
    IN  IF ~h.ok THEN ModelError(h.err)
        ELSE BoneLoop(d, h.bone_count, 0, h.bone_offset, << >>)

(***************************************************************************)
(* MdlxFile.__init__ on the bytes of the file                              *)
(***************************************************************************)
\* `if model_data:` is false for None and for an empty bytes object
Truthy(md) == md.found /\ md.bytes # << >>

MdlxFile(d) ==
    LET b == BarFile(d)
        md == entry(b, ModelKind)
    IN  IF ~b.ok THEN ModelError(b.err)
        ELSE IF Truthy(md) THEN MdlxModel(md.bytes)
        ELSE ModelError(ValueError)

(***************************************************************************)
(* Input files.  A file is built field by field the way the format lays    *)
(* it out (struct.pack, little-endian) and then cut to a length, so that   *)
(* the decoders above read bytes and not the fields the file was built     *)
(* from.                                                                   *)
(***************************************************************************)
Pack(n, w) == [i \in 1..w |-> (n \div (256 ^ (i - 1))) % 256]

\* '<i': \div rounds down, so the bytes of a negative n are its two's complement
PackSigned(n) == Pack(n, 4)

Fill(n, b) == [i \in 1..n |-> b]

RECURSIVE Concat(_)
Concat(ss) == IF ss = << >> THEN << >> ELSE Head(ss) \o Concat(Tail(ss))

SeqsUpTo(S, n) == UNION {[1..k -> S] : k \in 0..n}

Magic == <<66, 65, 82, 1>>

NameModl == <<77, 79, 68, 76>>
NamePadded == <<65, 0, 0, 0>>
NameNotAscii == <<77, 200, 0, 0>>

EntryBytes(e) ==
    Pack(e.type, 2) \o Pack(e.duplicate, 2) \o e.name \o Pack(e.offset, 4)
        \o Pack(e.size, 4)

ArchiveBytes(count, entries, payload) ==
    Magic \o Pack(count, 4) \o Fill(8, 0)
        \o Concat([i \in 1..Len(entries) |-> EntryBytes(entries[i])]) \o payload

\* a payload whose bytes all differ, so that two slices of it are told apart
Payload == [i \in 1..PayloadLen |-> 160 + i]

Kinds == {ModelKind, 7}

\* where an entry points, relative to the end of the entry table: the whole
\* payload, a part of it, an empty range, a range running past the end of the
\* file, and a range starting after it
Ranges ==
    {<<0, PayloadLen>>, <<1, 1>>, <<1, 0>>, <<1, PayloadLen>>,
     <<PayloadLen + 2, 1>>}

\* archives that differ in the type and the range of their entries
LookupInputs ==
    UNION {
      { ArchiveBytes(n,
                     [i \in 1..n |->
                        BarEntry(c[i][1], i - 1, NamePadded,
                                 16 + 16 * n + c[i][2][1], c[i][2][2])],
                     Payload)
        : c \in [1..n -> Kinds \X Ranges] }
      : n \in 0..MaxEntries }

\* archives that differ in the type, duplicate id and name of their entries
TableInputs ==
    UNION {
      { ArchiveBytes(n,
                     [i \in 1..n |->
                        BarEntry(c[i][1], c[i][2], c[i][3],
                                 16 + 16 * n, PayloadLen)],
                     Payload)
        : c \in [1..n -> Kinds \X {0, 1} \X {NameModl, NameNotAscii}] }
      : n \in 0..MaxEntries }

\* archives of n entries declaring `count` of them, cut to every length
CutInputs ==
    UNION {
      LET full == ArchiveBytes(x[2],
                               [i \in 1..x[1] |->
                                  BarEntry(ModelKind, 0, x[3],
                                           16 + 16 * x[1], PayloadLen)],
                               Payload)
      IN  { SubSeq(full, 1, l) : l \in 0..Len(full) }
      : x \in (0..MaxEntries) \X (0..(MaxEntries + 1))
              \X {NameModl, NameNotAscii} }

One == <<0, 0, 128, 63>>

\* a bone record: index, 2 reserved, parent, 8 reserved, scale, rot, trans
RecordBytes(r) ==
    Pack(r.index, 2) \o Fill(2, 0) \o PackSigned(r.parent) \o Fill(8, 0)
        \o (IF r.zero THEN Fill(48, 0)
            ELSE One \o One \o One \o One
                 \o Fill(12, 0) \o One
                 \o Pack(r.index, 4) \o PackSigned(r.parent) \o Fill(4, 0) \o One)

Records ==
    {[index |-> 0, parent |-> 0, zero |-> TRUE]} \cup [index : {0, 3}, parent : {-1, 0, 1}, zero : {FALSE}]

ModelHeaderLen == HeaderStart + 32

\* a model blob: preamble, header (version, 8 reserved, next_hdr, bone_count,
\* 2 reserved, bone_offset, unknown_offset, subpart_count, 2 reserved), records
ModelBlobOn(preamble, bone_count, bone_offset, records) ==
    Fill(HeaderStart, preamble) \o Pack(2, 4) \o Fill(8, 0) \o Pack(0, 4)
        \o Pack(bone_count, 2) \o Fill(2, 0) \o Pack(bone_offset, 4)
        \o Pack(9, 4) \o Pack(1, 2) \o Fill(2, 0)
        \o Concat([i \in 1..Len(records) |-> RecordBytes(records[i])])

ModelBlob(bone_count, bone_offset, records) ==
    ModelBlobOn(17, bone_count, bone_offset, records)

\* a file holding one entry of the model type, `size` bytes long, on a blob
ModelFile(blob, size) ==
    ArchiveBytes(1, <<BarEntry(ModelKind, 0, NameModl, 32, size)>>, blob)

ZeroRecord == [index |-> 0, parent |-> 0, zero |-> TRUE]

\* the hand-built file of the round trip: magic "BAR\0", one entry (4, 0,
\* "MODL", 32, N) and a zero-padded blob of one zeroed bone record
RoundTripBlob == ModelBlobOn(0, 1, ModelHeaderLen, <<ZeroRecord>>)

RoundTripFile ==
    <<66, 65, 82, 0>> \o Pack(1, 4) \o Fill(8, 0)
        \o EntryBytes(BarEntry(ModelKind, 0, NameModl, 32, Len(RoundTripBlob)))
        \o RoundTripBlob

CorruptCounts == {100}

FarOffsets == {65536}

\* blobs cut inside and just after the header
HeaderCutInputs ==
    { ModelFile(ModelBlob(Len(x[1]), ModelHeaderLen, x[1]), x[2])
      : x \in SeqsUpTo({ZeroRecord}, 1)
              \X ({0} \cup ((HeaderStart + 24)..(HeaderStart + 33))) }

\* blobs that differ in their records, in the bone count and table offset the
\* header declares, and in how many bytes are missing at their end
BoneInputs ==
    { LET blob == ModelBlob(x[2], x[3], x[1])
      IN  ModelFile(blob, Len(blob) - x[4])
      : x \in { y \in SeqsUpTo(Records, MaxBones)
                        \X ((0..MaxBones) \cup CorruptCounts)
                        \X ({0, ModelHeaderLen} \cup FarOffsets)
                        \X {0, 1, 60}
                  : y[2] \in {Len(y[1])} \cup CorruptCounts } }

Inputs ==
    LookupInputs \cup TableInputs \cup CutInputs \cup HeaderCutInputs
        \cup BoneInputs \cup {RoundTripFile}

(***************************************************************************)
(* scripts/kh2_spawn_export_to_mod.py.  A str is the sequence of its        *)
(* characters, each a one-character string; Ord is ord() on the characters  *)
(* the input files use.                                                     *)
(***************************************************************************)
MaxFiles == 2

Ord(c) ==
    CASE c = "+" -> 43 [] c = "-" -> 45 [] c = "." -> 46 [] c = "/" -> 47
      [] c = "0" -> 48 [] c = "1" -> 49 [] c = "2" -> 50 [] c = "9" -> 57
      [] c = "C" -> 67 [] c = "_" -> 95 [] c = "a" -> 97 [] c = "b" -> 98
      [] c = "c" -> 99 [] c = "d" -> 100 [] c = "j" -> 106 [] c = "m" -> 109
      [] c = "p" -> 112 [] c = "r" -> 114

\* str < str: by code point, a proper prefix being smaller
RECURSIVE StrLess(_, _)
StrLess(a, b) ==
    IF b = << >> THEN FALSE
    ELSE IF a = << >> THEN TRUE
    ELSE IF Head(a) # Head(b) THEN Ord(Head(a)) < Ord(Head(b))
    ELSE StrLess(Tail(a), Tail(b))

\* str.lower
StrLower(a) == [i \in 1..Len(a) |-> IF a[i] = "C" THEN "c" ELSE a[i]]

\* "/".join(parts)
RECURSIVE JoinSlash(_)
JoinSlash(parts) ==
    IF parts = << >> THEN << >>
    ELSE IF Len(parts) = 1 THEN parts[1]
    ELSE parts[1] \o <<"/">> \o JoinSlash(Tail(parts))

DecimalDigits == {"0", "1", "2", "9"}

\* int(s) raises ValueError unless s is an optional sign and decimal digits
\* (surrounding whitespace, inner underscores and the digits of other scripts,
\* which int also accepts, are not among the characters of the input files)
IntBody(s) == IF s # << >> /\ Head(s) \in {"+", "-"} THEN Tail(s) ELSE s

IntAccepts(s) ==
    /\ IntBody(s) # << >>
    /\ \A i \in 1..Len(IntBody(s)) : IntBody(s)[i] \in DecimalDigits

RECURSIVE StripZeros(_)
StripZeros(ds) ==
    IF ds # << >> /\ Head(ds) = "0" THEN StripZeros(Tail(ds)) ELSE ds

\* int(s): an integer of any size, kept as its sign and its decimal digits
\* without leading zeros (no digits for 0)
IntOf(s) ==
    LET mag == StripZeros(IntBody(s))
    IN  [neg |-> Head(s) = "-" /\ mag # << >>, mag |-> mag]

\* f"{n:010d}": sign, then zeros, then the digits, at least 10 characters
Format010d(n) ==
    LET ds == IF n.mag = << >> THEN <<"0">> ELSE n.mag
        sign == IF n.neg THEN <<"-">> ELSE << >>
        pad == 10 - Len(sign) - Len(ds)
    IN  sign \o (IF pad > 0 THEN Fill(pad, "0") ELSE << >>) \o ds

\* the items of a sort key: an int or a str
KeyInt(n) == [isint |-> TRUE, int |-> n, str |-> << >>]

KeyStr(a) == [isint |-> FALSE, int |-> 0, str |-> a]

ScriptEntry(program_id, path) == [program_id |-> program_id, path |-> path]

\* ScriptEntry.sort_key
sort_key(e) ==
    IF IntAccepts(e.program_id)
    THEN <<KeyInt(0), KeyStr(Format010d(IntOf(e.program_id)))>>
    ELSE <<KeyInt(1), KeyStr(e.program_id)>>

\* tuple < tuple for tuples of one length whose items are int or str
RECURSIVE TupleLess(_, _)
TupleLess(a, b) ==
    IF a = << >> THEN FALSE
    ELSE IF Head(a) # Head(b)
         THEN IF Head(a).isint THEN Head(a).int < Head(b).int
              ELSE StrLess(Head(a).str, Head(b).str)
    ELSE TupleLess(Tail(a), Tail(b))

\* sorted(..., key=...) and list.sort(key=...): the items arrive with their
\* keys, and items of equal keys keep their order
RECURSIVE InsertSorted(_, _)
InsertSorted(sorted, x) ==
    IF sorted = << >> THEN <<x>>
    ELSE IF TupleLess(x.key, sorted[Len(sorted)].key)
         THEN Append(InsertSorted(SubSeq(sorted, 1, Len(sorted) - 1), x),
                     sorted[Len(sorted)])
         ELSE Append(sorted, x)

RECURSIVE StableSort(_)
StableSort(items) ==
    IF items = << >> THEN << >>
    ELSE InsertSorted(StableSort(SubSeq(items, 1, Len(items) - 1)),
                      items[Len(items)])

Values(items) == [i \in 1..Len(items) |-> items[i].val]

(***************************************************************************)
(* ModBuilder.  A file under the root is the parts of its relative path:   *)
(* its directories and the stem of its name; all the files end in          *)
(* .areadataprogram, so _collect_spawnpoints finds none.  ModBuilder.assets *)
(* is the sequence of its buckets in insertion order, and the scripts of a  *)
(* bucket the sequence of their lists in insertion order, as a dict keeps   *)
(* them.                                                                    *)
(***************************************************************************)
ArdName == <<"a", "r", "d">>

IndexOf(parts, x) ==
    IF \E i \in 1..Len(parts) : parts[i] = x
    THEN CHOOSE i \in 1..Len(parts) :
             parts[i] = x /\ \A j \in 1..(i - 1) : parts[j] # x
    ELSE 0

\* the position of the last "_" of a stem, 0 without one
LastUnderscore(stem) ==
    IF \E i \in 1..Len(stem) : stem[i] = "_"
    THEN CHOOSE i \in 1..Len(stem) :
             stem[i] = "_" /\ \A j \in (i + 1)..Len(stem) : stem[j] # "_"
    ELSE 0

AssetBucket(region_parts, map_name) ==
    [region_parts |-> region_parts, map_name |-> map_name, scripts |-> << >>]

\* bucket.scripts.setdefault(program_type, []).append(item)
AddScript(scripts, program_type, item) ==
    IF \E i \in 1..Len(scripts) : scripts[i].name = program_type
    THEN [i \in 1..Len(scripts) |->
            IF scripts[i].name = program_type
            THEN [scripts[i] EXCEPT !.items = Append(@, item)]
            ELSE scripts[i]]
    ELSE Append(scripts, [name |-> program_type, items |-> <<item>>])

\* _get_bucket, then the append to the bucket it returns
AddToBucket(buckets, region_parts, map_name, program_type, item) ==
    LET have == IF \E i \in 1..Len(buckets) :
                       /\ buckets[i].region_parts = region_parts
                       /\ buckets[i].map_name = map_name
                THEN buckets
                ELSE Append(buckets, AssetBucket(region_parts, map_name))
    IN  [i \in 1..Len(have) |->
           IF have[i].region_parts = region_parts /\ have[i].map_name = map_name
           THEN [have[i] EXCEPT !.scripts = AddScript(@, program_type, item)]
           ELSE have[i]]

\* the body of the loop of _collect_scripts on one path
CollectScript(buckets, file) ==
    LET parts == Append(file.dirs, file.stem)
        ard == IndexOf(parts, ArdName)
        cut == LastUnderscore(file.stem)
    IN  IF ard = 0 THEN buckets
        ELSE IF Len(parts) <= ard + 1 THEN buckets
        ELSE IF cut = 0 THEN buckets
        ELSE IF cut = 1 THEN buckets
        ELSE AddToBucket(buckets, SubSeq(parts, 1, ard - 1), parts[ard + 1],
                         SubSeq(file.stem, 1, cut - 1),
                         ScriptEntry(SubSeq(file.stem, cut + 1, Len(file.stem)),
                                     file))

\* _collect_scripts over the paths in the order rglob yields them
RECURSIVE CollectScripts(_, _)
CollectScripts(buckets, files) ==
    IF files = << >> THEN buckets
    ELSE CollectScripts(CollectScript(buckets, Head(files)), Tail(files))

\* AssetBucket.ard_relative_path
ard_relative_path(bucket) ==
    LET parts == Append(bucket.region_parts,
                        bucket.map_name \o <<".", "a", "r", "d">>)
        relative == JoinSlash(SelectSeq(parts, LAMBDA x : x # << >>))
    IN  <<"a", "r", "d", "/">> \o relative

\* ModBuilder._asset_sort_key
AssetSortKey(bucket) ==
    <<KeyStr(JoinSlash(bucket.region_parts)), KeyStr(bucket.map_name)>>

\* scripts.sort(key=lambda item: item.sort_key())
SortScripts(items) ==
    Values(StableSort([i \in 1..Len(items) |->
                          [key |-> sort_key(items[i]), val |-> items[i]]]))

\* the lists of a bucket after render: each one sorted in place
ScriptsAfterRender(scripts) ==
    [i \in 1..Len(scripts) |->
        [scripts[i] EXCEPT !.items = SortScripts(@)]]

\* the 'areadatascript' entries of a bucket, by sorted(keys, key=str.lower)
ScriptEntries(bucket) ==
    LET named == Values(StableSort([i \in 1..Len(bucket.scripts) |->
                            [key |-> <<KeyStr(StrLower(bucket.scripts[i].name))>>,
                             val |-> bucket.scripts[i]]]))
    IN  [i \in 1..Len(named) |->
           [method |-> "areadatascript",
            name   |-> named[i].name,
            source |-> [j \in 1..Len(named[i].items) |->
                           SortScripts(named[i].items)[j].path],
            type   |-> "AreaDataScript"]]

\* ModBuilder.render up to dump_yaml: the assets of the document, or the
\* ValueError of a builder that collected nothing
RenderOk(ordered) == [ok |-> TRUE, err |-> "", assets |-> ordered]

RenderError(e) == [ok |-> FALSE, err |-> e, assets |-> << >>]

Render(buckets) ==
    LET ordered == Values(StableSort([i \in 1..Len(buckets) |->
                             [key |-> AssetSortKey(buckets[i]),
                              val |-> buckets[i]]]))
        withEntries == SelectSeq(ordered, LAMBDA b : ScriptEntries(b) # << >>)
    IN  IF withEntries = << >> THEN RenderError(ValueError)
        ELSE RenderOk([i \in 1..Len(withEntries) |->
                         [method |-> "binarc",
                          name   |-> ard_relative_path(withEntries[i]),
                          source |-> ScriptEntries(withEntries[i])]])

AssetsAfterRender(buckets) ==
    [i \in 1..Len(buckets) |->
        [buckets[i] EXCEPT !.scripts = ScriptsAfterRender(@)]]

(***************************************************************************)
(* The files under the root: program ids of at most two characters, and    *)
(* ids of 9 to 11 digits, in two script types, three directories and a few  *)
(* names that _collect_scripts skips, listed in any order.                  *)
(***************************************************************************)
IdChars == {"-", "1", "2", "a"}

ShortIds == UNION {[1..k -> IdChars] : k \in 0..2}

LongIds ==
    {Fill(9, "9"), Fill(10, "1"), Fill(10, "9"), Fill(11, "1"),
     <<"-">> \o Fill(9, "1"), <<"0", "0", "2">>}

ProgramIds == ShortIds \cup LongIds

ProgramTypes == {<<"b">>, <<"C">>}

ScriptDirs == {<<ArdName, <<"m">>>>, <<<<"j", "p">>, ArdName, <<"m">>>>}

Files ==
    { [dirs |-> x[1], stem |-> x[2] \o <<"_">> \o x[3]]
      : x \in ScriptDirs \X ProgramTypes \X ProgramIds }
    \cup { [dirs |-> <<ArdName>>, stem |-> <<"b", "_", "1">>],
           [dirs |-> <<<<"m">>>>, stem |-> <<"b", "_", "1">>],
           [dirs |-> <<ArdName, <<"m">>>>, stem |-> <<"b", "1">>],
           [dirs |-> <<ArdName, <<"m">>>>, stem |-> <<"_", "1">>],
           [dirs |-> <<ArdName, <<"m">>>>, stem |-> <<"b", "_", "c", "_", "2">>] }

Listings ==
    { l \in UNION {[1..k -> Files] : k \in 0..MaxFiles} :
        \A i, j \in 1..Len(l) : i # j => l[i] # l[j] }

NoBar == BarError("")

NoModel == ModelError("")

NoDocument == RenderError("")

\* the exporter does not run in the behaviours of the decoders
ExporterIdle ==
    /\ listing = << >>
    /\ assets = << >>
    /\ document = NoDocument
    /\ step = "idle"

\* the decoders do not run in the behaviours of the exporter
InitExport ==
    /\ data = << >>
    /\ pc = "export"
    /\ bar = NoBar
    /\ etype = 0
    /\ model_data = None
    /\ model = NoModel
    /\ mdlx = NoModel
    /\ listing \in Listings
    /\ assets = << >>
    /\ document = NoDocument
    /\ step = "start"

decoder == <<data, pc, bar, etype, model_data, model, mdlx>>

\* builder.build()
Build ==
    /\ step = "start"
    /\ assets' = CollectScripts(<< >>, listing)
    /\ step' = "built"
    /\ UNCHANGED <<listing, document>>
    /\ UNCHANGED decoder

\* builder.render(metadata)
RenderDocument ==
    /\ step = "built"
    /\ document' = Render(assets)
    /\ assets' = AssetsAfterRender(assets)
    /\ step' = "rendered"
    /\ UNCHANGED listing
    /\ UNCHANGED decoder

NextExport == Build \/ RenderDocument

SpecExport == InitExport /\ [][NextExport]_vars

(***************************************************************************)
(* The state machine: a file is read, then either the three decoders are   *)
(* called one after the other, or MdlxFile runs the whole pipeline.        *)
(***************************************************************************)
Init ==
    /\ data \in Inputs
    /\ pc = "start"
    /\ bar = NoBar
    /\ etype = 0
    /\ model_data = None
    /\ model = NoModel
    /\ mdlx = NoModel
    /\ ExporterIdle

\* bar = BarFile(data)
BarFileInit ==
    /\ pc = "start"
    /\ bar' = BarFile(data)
    /\ pc' = "parsed"
    /\ UNCHANGED <<data, etype, model_data, model, mdlx>>
    /\ UNCHANGED exporter

\* model_data = bar.entry(t), on an archive that was parsed
BarFileEntry(t) ==
    /\ pc = "parsed"
    /\ bar.ok
    /\ etype' = t
    /\ model_data' = entry(bar, t)
    /\ pc' = "looked"
    /\ UNCHANGED <<data, bar, model, mdlx>>
    /\ UNCHANGED exporter

\* model = MdlxModel(model_data), on any bytes a lookup returned
MdlxModelInit ==
    /\ pc = "looked"
    /\ model_data.found
    /\ model' = MdlxModel(model_data.bytes)
    /\ pc' = "decoded"
    /\ UNCHANGED <<data, bar, etype, model_data, mdlx>>
    /\ UNCHANGED exporter

\* mdlx = MdlxFile(path), data being the bytes of the file at path
MdlxFileInit ==
    /\ pc = "start"
    /\ mdlx' = MdlxFile(data)
    /\ pc' = "loaded"
    /\ UNCHANGED <<data, bar, etype, model_data, model>>
    /\ UNCHANGED exporter

Next ==
    \/ BarFileInit
    \/ \E t \in Kinds : BarFileEntry(t)
    \/ MdlxModelInit
    \/ MdlxFileInit

Spec == Init /\ [][Next]_vars

(***************************************************************************)
(* Properties                                                              *)
(***************************************************************************)
\* the bytes buf[a : a+n] of a buffer that holds them
Bytes(buf, a, n) == SubSeq(buf, a + 1, a + n)

Looked == pc \in {"looked", "decoded"}

InRange(b) ==
    \A i \in 1..Len(b.entries) :
        b.entries[i].offset + b.entries[i].size <= Len(data)

HasType(b, t) == \E i \in 1..Len(b.entries) : b.entries[i].type = t

FirstOfType(b, t) ==
    CHOOSE i \in 1..Len(b.entries) :
        /\ b.entries[i].type = t
        /\ \A j \in 1..(i - 1) : b.entries[j].type # t

\* C1: on an archive whose entries all lie inside the buffer, entry(kind)
\* returns exactly the bytes buffer[offset : offset+size] of the first entry
\* of that kind in table order, and None when no entry has the kind.
C1_EntryFirstMatch ==
    (Looked /\ InRange(bar)) =>
        IF HasType(bar, etype)
        THEN LET e == bar.entries[FirstOfType(bar, etype)]
             IN  model_data = Some(Bytes(data, e.offset, e.size))
        ELSE model_data = None

\* a lookup that found its kind twice, behind an entry of another kind or
\* not, the two entries pointing at different bytes
C1_Witness ==
    /\ pc = "looked"
    /\ InRange(bar)
    /\ Len(bar.entries) = 2
    /\ bar.entries[1].type = etype
    /\ bar.entries[2].type = etype
    /\ model_data.found
    /\ model_data.bytes # << >>
    /\ Bytes(data, bar.entries[2].offset, bar.entries[2].size) # model_data.bytes

\* C2: a buffer shorter than the 16-byte header (whatever count its bytes
\* 4..7 hold) fails to parse with struct.error, and so does a buffer shorter
\* than 16 + 16*count, unless the ASCII decoding of a name read before the
\* missing bytes failed first; no archive is produced.
C2_ShortBufferFails ==
    pc = "parsed" =>
        /\ Len(data) < 16 => (~bar.ok /\ bar.err = StructError)
        /\ (Len(data) >= 16 /\ Len(data) < 16 + 16 * unpack_u32(data, 4)) =>
               (~bar.ok /\ bar.err \in {StructError, UnicodeDecodeError})
        /\ ~bar.ok => (bar.entries = << >> /\ bar.data = << >>)

\* C3: MdlxModel fails with struct.error on every blob shorter than
\* 0x90 + 28 bytes, whatever bone count the blob declares.
C3_ShortBlobFails ==
    (pc = "decoded" /\ Len(model_data.bytes) < HeaderStart + 28) =>
        (~model.ok /\ model.err = StructError /\ model.bones = << >>)

\* a blob of 0x90 + 27 bytes whose bone count field holds 0 was decoded
C3_Witness ==
    /\ pc = "decoded"
    /\ Len(model_data.bytes) = HeaderStart + 27
    /\ Bytes(model_data.bytes, HeaderStart + 16, 2) = <<0, 0>>
    /\ ~model.ok

\* the header a blob declares, and whether its bone table ends inside it
TableInside(blob) ==
    LET h == MdlxHeader(blob)
    IN  h.bone_offset + h.bone_count * BoneRecordSize <= Len(blob)

\* C4: whenever bone_offset + bone_count*64 exceeds the length of the blob,
\* decoding fails with an error and returns no bone list at all.
C4_TablePastEndFails ==
    (pc = "decoded" /\ MdlxHeader(model_data.bytes).ok
                    /\ ~TableInside(model_data.bytes)) =>
        (~model.ok /\ model.bones = << >>)

\* C5: the index of every decoded bone is its 0-based position in the bone
\* table, whatever the 16-bit field at offset 0 of its record holds.
C5_IndexIsPosition ==
    (pc = "decoded" /\ model.ok) =>
        \A i \in 1..Len(model.bones) : model.bones[i].index = i - 1

\* C6: every entry of a parsed archive has offset + size <= the length of
\* the buffer, and a lookup never returns fewer bytes than the size its
\* entry declares.
C6_EntriesInRange ==
    /\ (pc # "start" /\ bar.ok) => InRange(bar)
    /\ (Looked /\ model_data.found) =>
           Len(model_data.bytes) = bar.entries[FirstOfType(bar, etype)].size

\* C7: when the header is readable and the bone table lies inside the blob,
\* decoding succeeds with exactly bone_count bones, the i-th of them built
\* from the 64 bytes at bone_offset + 64*i and from nothing else; a bone
\* count of 0 gives an empty list.
C7_BonesFollowTable ==
    (pc = "decoded" /\ MdlxHeader(model_data.bytes).ok
                    /\ TableInside(model_data.bytes)) =>
        LET blob == model_data.bytes
            n == LittleEndian(Bytes(blob, HeaderStart + 16, 2))
            at == LittleEndian(Bytes(blob, HeaderStart + 20, 4))
        IN  /\ model.ok
            /\ Len(model.bones) = n
            /\ \A i \in 1..n :
                 LET rec == Bytes(blob, at + 64 * (i - 1), 64)
                 IN  /\ model.bones[i] = Bone(rec)
                     /\ Pack(model.bones[i].index, 2) = SubSeq(rec, 1, 2)
                     /\ Pack(model.bones[i].parent, 4) = SubSeq(rec, 5, 8)
            /\ n = 0 => model.bones = << >>

\* two different records were decoded into two different bones
C7_Witness ==
    /\ pc = "decoded"
    /\ model.ok
    /\ Len(model.bones) = 2
    /\ model.bones[1] # model.bones[2]
    /\ TableInside(model_data.bytes)

IsZeroFloat(x) == x.exp = 0 /\ x.frac = 0

\* C8: the parent of every decoded bone is the signed 32-bit little-endian
\* value at offset 4 of its record, unaltered (its two's complement bytes are
\* the bytes of the record): -1, a parent beyond the bone count and a bone's
\* own position all decode; a zeroed record decodes to parent 0, and loading
\* the hand-built file of one zeroed bone yields one bone with parent 0 and
\* vectors of 0.0.
C8_ParentVerbatim ==
    /\ (pc = "decoded" /\ MdlxHeader(model_data.bytes).ok
                       /\ TableInside(model_data.bytes)) => model.ok
    /\ (pc = "decoded" /\ model.ok) =>
         LET blob == model_data.bytes
             at == MdlxHeader(blob).bone_offset
         IN  \A i \in 1..Len(model.bones) :
               LET rec == Bytes(blob, at + 64 * (i - 1), 64)
                   parent == model.bones[i].parent
               IN  /\ parent \in -2147483647..2147483647
                   /\ Pack(parent, 4) = SubSeq(rec, 5, 8)
                   /\ SubSeq(rec, 5, 8) = <<255, 255, 255, 255>> => parent = -1
                   /\ rec = Fill(64, 0) => parent = 0
    /\ (pc = "loaded" /\ data = RoundTripFile) =>
         /\ mdlx.ok
         /\ Len(mdlx.bones) = 1
         /\ mdlx.bones[1].parent = 0
         /\ \A k \in 1..4 : /\ IsZeroFloat(mdlx.bones[1].scale[k])
                            /\ IsZeroFloat(mdlx.bones[1].rot[k])
                            /\ IsZeroFloat(mdlx.bones[1].trans[k])

\* a root bone (parent -1) followed by a bone that names its own position
C8_Witness ==
    /\ pc = "decoded"
    /\ model.ok
    /\ Len(model.bones) = 2
    /\ model.bones[1].parent = -1
    /\ model.bones[2].parent = 1

\* C9: a parsed archive has exactly as many entries as bytes 4..7 of the
\* buffer count, in table order, entry i carrying the type, duplicate id,
\* offset and size of bytes 16+16*i .. 16+16*i+15, entries of one type or
\* wholly equal all kept; a count of 0 in a buffer holding the 16-byte header
\* parses to an empty list.
C9_EntriesFollowTable ==
    pc = "parsed" =>
        /\ bar.ok =>
             /\ Pack(Len(bar.entries), 4) = Bytes(data, 4, 4)
             /\ bar.data = data
             /\ \A i \in 1..Len(bar.entries) :
                  LET rec == Bytes(data, 16 + 16 * (i - 1), 16)
                      e == bar.entries[i]
                  IN  /\ Pack(e.type, 2) = SubSeq(rec, 1, 2)
                      /\ Pack(e.duplicate, 2) = SubSeq(rec, 3, 4)
                      /\ Pack(e.offset, 4) = SubSeq(rec, 9, 12)
                      /\ Pack(e.size, 4) = SubSeq(rec, 13, 16)
        /\ (Len(data) >= 16 /\ Bytes(data, 4, 4) = <<0, 0, 0, 0>>) =>
               (bar.ok /\ bar.entries = << >>)

\* an archive of two wholly equal entries was parsed
C9_Witness ==
    /\ pc = "parsed"
    /\ bar.ok
    /\ Len(bar.entries) = 2
    /\ bar.entries[1] = bar.entries[2]

\* C10: loading a file that parses fails with ValueError ("No model data")
\* exactly when the archive has no entry of type 4; when it has one, the
\* bytes of the first such entry go to MdlxModel, empty or not, and the
\* outcome of the load is the outcome of MdlxModel on them.
C10_EmptyModelOnlyWithoutEntry ==
    (pc = "loaded" /\ BarFile(data).ok) =>
        LET b == BarFile(data)
        IN  /\ (~mdlx.ok /\ mdlx.err = ValueError) <=> ~HasType(b, ModelKind)
            /\ HasType(b, ModelKind) =>
                 LET e == b.entries[FirstOfType(b, ModelKind)]
                 IN  mdlx = MdlxModel(Slice(data, e.offset, e.offset + e.size))

\* numeric order of two integers of any size
MagLess(a, b) == Len(a) < Len(b) \/ (Len(a) = Len(b) /\ StrLess(a, b))

IntLess(x, y) ==
    IF x.neg # y.neg THEN x.neg
    ELSE IF x.neg THEN MagLess(y.mag, x.mag)
    ELSE MagLess(x.mag, y.mag)

\* the program id of a source of the document: what follows the last "_"
IdOfSource(file) ==
    SubSeq(file.stem, LastUnderscore(file.stem) + 1, Len(file.stem))

\* the pairs of sources of the 'areadatascript' entries, in their order
Rendered == step = "rendered" /\ document.ok

SourcePairsHold(P(_, _)) ==
    \A a \in 1..Len(document.assets) :
      \A e \in 1..Len(document.assets[a].source) :
        LET source == document.assets[a].source[e].source
        IN  \A i, j \in 1..Len(source) :
              i < j => P(IdOfSource(source[i]), IdOfSource(source[j]))

IntsFirst(p, q) == ~(~IntAccepts(p) /\ IntAccepts(q))

IntsAscending(p, q) ==
    (IntAccepts(p) /\ IntAccepts(q)) => ~IntLess(IntOf(q), IntOf(p))

OthersAscending(p, q) ==
    (~IntAccepts(p) /\ ~IntAccepts(q)) => ~StrLess(q, p)

\* C11: in every 'areadatascript' entry of the rendered document the
\* programs whose id int() accepts come before the others, in ascending
\* numeric order of their ids (negative ids and ids of more than 10 digits
\* included), and the others follow in ascending order of their id strings.
C11_SourcesInNumericOrder ==
    Rendered =>
        /\ SourcePairsHold(IntsFirst)
        /\ SourcePairsHold(IntsAscending)
        /\ SourcePairsHold(OthersAscending)

====
